---- MODULE Spec2Model ----
(***************************************************************************)
(* Model of two parts of the collision pipeline:                           *)
(*   - BroadPhaseSieveTree::update  (geometry/broad_phase_sieve_tree.rs)   *)
(*   - TOIEntry::try_from_colliders and the ordering of TOIEntry           *)
(*     (dynamics/ccd/toi_entry.rs)                                         *)
(* Reals are modelled by integers on a coarse grid.  The spatial index     *)
(* (crate sieve_tree) is modelled by its contract: a map from entry id to  *)
(* (bounds, value) whose intersection query returns every entry whose      *)
(* stored bounds overlap the query box (closed intervals).                 *)
(***************************************************************************)
EXTENDS Integers, Sequences, FiniteSets, TLC

VARIABLES
    tree,      \* BroadPhaseSieveTree.tree
    meta,      \* BroadPhaseSieveTree.meta
    events,    \* the events vector handed to update
    last,      \* the last call of update: its arguments and its pair diffs
    panicked,  \* the unwrap or assertion that aborted update, or "none"
    pairs,     \* the pairs the consumer of the events holds
    call,      \* the last call of TOIEntry::try_from_colliders and its outcome
    heap,      \* a max-priority structure of TOIEntry
    popped     \* the entries extracted from heap, in order

vars == <<tree, meta, events, last, panicked, pairs, call, heap, popped>>

----------------------------------------------------------------------------
(* Bounds of the model *)

\* Longest modified_colliders / removed_colliders slice handed to one update.
MaxModified == 2

MaxRemoved == 2

\* Most handles one call of update names in its two slices together.
MaxNamed == 3

\* Collider handles (ColliderHandle) that exist in the model.
ColliderHandles == {1, 2, 3}

\* Rigid-body handles.
RigidBodyHandles == {1}

\* Translations a collider can have along the first axis.
Translations == {0, 2}

\* prediction_distance values passed to update.
PredictionDistances == {0, 1}

\* dt values passed to update.
Dts == {1}

\* Number of axes (feature dim2: SieveTree<2, 6, T>, Bounds<2>).
DIM == 2

Axes == 1..DIM

ELEMENTS_PER_CELL == 4

\* Option: <<>> is None, <<x>> is Some(x).
None == <<>>

Some(x) == <<x>>

----------------------------------------------------------------------------
(* Boxes *)

Min2(a, b) == IF a < b THEN a ELSE b

Max2(a, b) == IF a < b THEN b ELSE a

\* parry Aabb::loosened
aabb_loosened(aabb, amount) ==
    [mins |-> [i \in Axes |-> aabb.mins[i] - amount],
     maxs |-> [i \in Axes |-> aabb.maxs[i] + amount]]

\* parry Aabb::merge
aabb_merge(a, b) ==
    [mins |-> [i \in Axes |-> Min2(a.mins[i], b.mins[i])],
     maxs |-> [i \in Axes |-> Max2(a.maxs[i], b.maxs[i])]]

\* The shape of every collider is the unit cuboid [0,1]^DIM;
\* shape.compute_aabb(pos) translates it by pos.
shape_compute_aabb(pos) ==
    [mins |-> [i \in Axes |-> pos[i]],
     maxs |-> [i \in Axes |-> pos[i] + 1]]

\* Collider::compute_collision_aabb(prediction)
compute_collision_aabb(co, prediction) ==
    aabb_loosened(shape_compute_aabb(co.pos), co.contact_skin + prediction)

\* aabb_to_bounds: the f32 -> f64 cast is exact, the fields are renamed.
aabb_to_bounds(aabb) == [min |-> aabb.mins, max |-> aabb.maxs]

\* sieve_tree Bounds::loosened
bounds_loosened(b, amount) ==
    [min |-> [i \in Axes |-> b.min[i] - amount],
     max |-> [i \in Axes |-> b.max[i] + amount]]

\* Box overlap on closed intervals, all axes.
bounds_intersects(a, b) ==
    \A i \in Axes : a.min[i] <= b.max[i] /\ b.min[i] <= a.max[i]

----------------------------------------------------------------------------
(* The spatial index, by contract.  tree is a function from the ids of the *)
(* live entries to [bounds, value].                                        *)

TreeIds == 0..(Cardinality(ColliderHandles) - 1)

\* The id of a new entry.  Ids are opaque to update, which stores them, hands
\* them back and compares them for equality, so that one injective naming
\* stands for every allocator: a new entry takes the free id that follows
\* the rank of the value it stores.
tree_free_id(t, value) == CHOOSE id \in TreeIds \ DOMAIN t : id = value - 1

\* insert_and_balance(bounds, value, max_elements_per_cell, lookup) -> id.
\* A cell is subdivided, and sibling_bounds_lookup called, only when it holds
\* more than max_elements_per_cell entries: never with the handles of the
\* model, so that the lookup is handed over and not called.
tree_insert_and_balance(t, bounds, value, max_elements_per_cell, sibling_bounds_lookup) ==
    LET id == tree_free_id(t, value)
    IN  [tree |-> t @@ (id :> [bounds |-> bounds, value |-> value]), id |-> id]

\* update_and_balance(id, old_bounds, new_bounds, max_elements_per_cell, lookup)
tree_update_and_balance(t, id, old_bounds, new_bounds, max_elements_per_cell, sibling_bounds_lookup) ==
    [t EXCEPT ![id].bounds = new_bounds]

\* remove(id, bounds) -> value
tree_remove(t, id, bounds) ==
    [tree |-> [x \in DOMAIN t \ {id} |-> t[x]], value |-> t[id].value]

\* intersections(bounds): the ids of the overlapping entries
tree_intersections(t, bounds) ==
    {id \in DOMAIN t : bounds_intersects(t[id].bounds, bounds)}

\* A set of integers as the sequence of its elements in ascending order.
RECURSIVE SetToSeq(_)
SetToSeq(S) ==
    IF S = {} THEN <<>>
    ELSE LET m == CHOOSE x \in S : \A y \in S : x <= y
         IN  <<m>> \o SetToSeq(S \ {m})

----------------------------------------------------------------------------
(* BroadPhaseSieveTree::update.  The running state of one call is a record *)
(* s = [tree, meta, events, balances, diffs, panicked]; panicked names the *)
(* unwrap or assertion that aborted the call ("none" while it runs).       *)
(* balances logs the calls of the index's insert_and_balance and           *)
(* update_and_balance; diffs logs, per iteration of the pair-diffing loop, *)
(* what that iteration saw and did.                                        *)

\* co.parent.and_then(|p| ...): <<>> is None, <<pos>> is Some(pos).
next_pos(co, bodies, dt) ==
    IF co.parent = <<>> THEN <<>>
    ELSE LET p == co.parent[1] IN
         IF p.handle \notin DOMAIN bodies THEN <<>>
         ELSE LET parent == bodies[p.handle] IN
              IF parent.soft_ccd_prediction > 0
              THEN <<[i \in Axes |->
                        parent.position[i]
                        + Min2(dt * parent.linvel[i], parent.soft_ccd_prediction)
                        + p.pos_wrt_parent[i]]>>
              ELSE <<>>

\* Lines 63-68: the bounds a modified collider is stored under.
new_bounds_of(co, bodies, dt) ==
    LET np   == next_pos(co, bodies, dt)
        aabb == compute_collision_aabb(co, 0)
    IN  aabb_to_bounds(
          IF np # <<>>
          THEN aabb_merge(aabb,
                 aabb_loosened(shape_compute_aabb(np[1]), co.contact_skin))
          ELSE aabb)

\* Lines 75-77 and 93-95: the closure |&handle| aabb_to_bounds(
\* &colliders.get(handle).unwrap().compute_collision_aabb(0.0)), as the
\* function it computes; it is undefined (the unwrap fails) on a handle that
\* names no collider.
sibling_bounds_lookup(colliders) ==
    [handle \in DOMAIN colliders |->
        aabb_to_bounds(compute_collision_aabb(colliders[handle], 0))]

\* The bounds each value of the index is stored under.
stored_bounds(t) ==
    [value \in {t[id].value : id \in DOMAIN t} |->
        t[CHOOSE id \in DOMAIN t : t[id].value = value].bounds]

\* The record of one insert_and_balance / update_and_balance call of update:
\* the handle, the index's stored bounds when the call is made, the lookup
\* handed over.
balance_call(op, handle, t, lookup) ==
    [op |-> op, handle |-> handle, stored |-> stored_bounds(t), lookup |-> lookup]

\* remove_loop that passes over a handle without metadata (if let Some in
\* the place of unwrap).
RECURSIVE remove_loop_skips_missing(_, _, _)
remove_loop_skips_missing(s, removed_colliders, i) ==
    IF i > Len(removed_colliders) \/ s.panicked # "none" THEN s
    ELSE LET handle == removed_colliders[i] IN
         IF handle \notin DOMAIN s.meta
         THEN remove_loop_skips_missing(s, removed_colliders, i + 1)
         ELSE LET m       == s.meta[handle]
                  removed == tree_remove(s.tree, m.id, m.bounds)
                  s1      == [s EXCEPT
                                !.meta = [h \in DOMAIN s.meta \ {handle} |-> s.meta[h]],
                                !.tree = removed.tree]
              IN  remove_loop_skips_missing(s1, removed_colliders, i + 1)

\* Lines 41-45: the removal loop, from element i on.
RECURSIVE remove_loop(_, _, _)
remove_loop(s, removed_colliders, i) ==
    IF i > Len(removed_colliders) \/ s.panicked # "none" THEN s
    ELSE LET handle == removed_colliders[i] IN
         IF handle \notin DOMAIN s.meta
         THEN [s EXCEPT !.panicked = "remove: meta unwrap"]
         ELSE LET m       == s.meta[handle]
                  removed == tree_remove(s.tree, m.id, m.bounds)
                  s1      == [s EXCEPT
                                !.meta = [h \in DOMAIN s.meta \ {handle} |-> s.meta[h]],
                                !.tree = removed.tree]
              IN  IF removed.value # handle
                  THEN [s1 EXCEPT !.panicked = "remove: debug_assert_eq"]
                  ELSE remove_loop(s1, removed_colliders, i + 1)

\* Lines 47-100: the bounds refresh loop, from element i on.
RECURSIVE refresh_loop(_, _, _, _, _, _)
refresh_loop(s, dt, colliders, bodies, modified_colliders, i) ==
    IF i > Len(modified_colliders) \/ s.panicked # "none" THEN s
    ELSE LET handle == modified_colliders[i] IN
         IF handle \notin DOMAIN colliders
         THEN [s EXCEPT !.panicked = "refresh: collider unwrap"]
         ELSE LET co == colliders[handle] IN
              IF ~co.enabled \/ ~co.needs_broad_phase_update
              THEN refresh_loop(s, dt, colliders, bodies, modified_colliders, i + 1)
              ELSE LET new_bounds == new_bounds_of(co, bodies, dt) IN
                   IF handle \notin DOMAIN s.meta
                   THEN LET lookup == sibling_bounds_lookup(colliders)
                            ins == tree_insert_and_balance(
                                     s.tree, new_bounds, handle, ELEMENTS_PER_CELL,
                                     lookup)
                        IN  refresh_loop(
                              [s EXCEPT
                                 !.balances = Append(@,
                                    balance_call("insert_and_balance", handle,
                                                 s.tree, lookup)),
                                 !.tree = ins.tree,
                                 !.meta = s.meta @@ (handle :>
                                            [id       |-> ins.id,
                                             bounds   |-> new_bounds,
                                             touching |-> {}])],
                              dt, colliders, bodies, modified_colliders, i + 1)
                   ELSE LET m          == s.meta[handle]
                            old_bounds == m.bounds
                            lookup     == sibling_bounds_lookup(colliders)
                        IN  refresh_loop(
                              [s EXCEPT
                                 !.balances = Append(@,
                                    balance_call("update_and_balance", handle,
                                                 s.tree, lookup)),
                                 !.meta[handle].bounds = new_bounds,
                                 !.tree = tree_update_and_balance(
                                            s.tree, m.id, old_bounds, new_bounds,
                                            ELEMENTS_PER_CELL, lookup)],
                              dt, colliders, bodies, modified_colliders, i + 1)

AddPair(c1, c2) == [kind |-> "AddPair", collider1 |-> c1, collider2 |-> c2]

DeletePair(c1, c2) == [kind |-> "DeletePair", collider1 |-> c1, collider2 |-> c2]

\* Lines 116-123: is the found collider2 reported as a new pair of collider1?
is_new_pair(was_touching, collider1, collider2) == collider1 \notin was_touching

\* Lines 110-124: "detect new pairs", over the query result found (ids), from
\* element i on.
RECURSIVE detect_new_pairs(_, _, _, _, _, _)
detect_new_pairs(s, collider1, id1, was_touching, found, i) ==
    IF i > Len(found) \/ s.panicked # "none" THEN s
    ELSE LET id2       == found[i]
             collider2 == s.tree[id2].value
         IN
         IF id1 = id2
         THEN detect_new_pairs(s, collider1, id1, was_touching, found, i + 1)
         ELSE LET s1 == [s EXCEPT !.meta[collider1].touching = @ \cup {collider2}] IN
              IF is_new_pair(was_touching, collider1, collider2)
              THEN LET s2 == [s1 EXCEPT !.events = Append(@, AddPair(collider1, collider2))]
                   IN  IF collider2 \notin DOMAIN s2.meta
                       THEN [s2 EXCEPT !.panicked = "diff: meta2 unwrap (add)"]
                       ELSE detect_new_pairs(
                              [s2 EXCEPT !.meta[collider2].touching = @ \cup {collider1}],
                              collider1, id1, was_touching, found, i + 1)
              ELSE detect_new_pairs(s1, collider1, id1, was_touching, found, i + 1)

\* detect_obsolete_pairs without the reciprocal meta2.touching.remove.
RECURSIVE detect_obsolete_pairs_one_sided(_, _, _, _)
detect_obsolete_pairs_one_sided(s, collider1, was_touching, i) ==
    IF i > Len(was_touching) \/ s.panicked # "none" THEN s
    ELSE LET collider2 == was_touching[i] IN
         IF collider2 \in s.meta[collider1].touching
         THEN detect_obsolete_pairs_one_sided(s, collider1, was_touching, i + 1)
         ELSE LET s1 == [s EXCEPT !.events = Append(@, DeletePair(collider1, collider2))]
              IN  IF collider2 \notin DOMAIN s1.meta
                  THEN [s1 EXCEPT !.panicked = "diff: meta2 unwrap (delete)"]
                  ELSE detect_obsolete_pairs_one_sided(s1, collider1, was_touching, i + 1)

\* Lines 126-137: "detect obsolete pairs", over was_touching (as a sequence),
\* from element i on.
RECURSIVE detect_obsolete_pairs(_, _, _, _)
detect_obsolete_pairs(s, collider1, was_touching, i) ==
    IF i > Len(was_touching) \/ s.panicked # "none" THEN s
    ELSE LET collider2 == was_touching[i] IN
         IF collider2 \in s.meta[collider1].touching
         THEN detect_obsolete_pairs(s, collider1, was_touching, i + 1)
         ELSE LET s1 == [s EXCEPT !.events = Append(@, DeletePair(collider1, collider2))]
              IN  IF collider2 \notin DOMAIN s1.meta
                  THEN [s1 EXCEPT !.panicked = "diff: meta2 unwrap (delete)"]
                  ELSE detect_obsolete_pairs(
                         [s1 EXCEPT !.meta[collider2].touching = @ \ {collider1}],
                         collider1, was_touching, i + 1)

\* The touching sets by handle, of the handles that have metadata.
touching_of(m) == [h \in DOMAIN m |-> m[h].touching]

\* Lines 105-137: one iteration of the pair-diffing loop.
diff_pairs(s, prediction_distance, collider1) ==
    IF collider1 \notin DOMAIN s.meta
    THEN [s EXCEPT !.panicked = "diff: meta1 unwrap"]
    ELSE LET meta1        == s.meta[collider1]
             was_touching == meta1.touching
             id1          == meta1.id
             bounds       == bounds_loosened(meta1.bounds, prediction_distance)
             found        == tree_intersections(s.tree, bounds)
             s0           == [s EXCEPT !.meta[collider1].touching = {}]
             s1           == detect_new_pairs(s0, collider1, id1, was_touching,
                                              SetToSeq(found), 1)
             s2           == detect_obsolete_pairs(s1, collider1,
                                                   SetToSeq(was_touching), 1)
         IN  [s2 EXCEPT !.diffs = Append(@,
                [collider1    |-> collider1,
                 was_touching |-> was_touching,
                 found        |-> {s.tree[id].value : id \in found \ {id1}},
                 events       |-> SubSeq(s2.events, Len(s.events) + 1, Len(s2.events)),
                 touching     |-> touching_of(s2.meta),
                 panicked     |-> s2.panicked])]

\* Lines 104-138: the pair-diffing loop, from element i on.
RECURSIVE diff_loop(_, _, _, _)
diff_loop(s, prediction_distance, modified_colliders, i) ==
    IF i > Len(modified_colliders) \/ s.panicked # "none" THEN s
    ELSE diff_loop(diff_pairs(s, prediction_distance, modified_colliders[i]),
                   prediction_distance, modified_colliders, i + 1)

\* update with the bounds refresh loop run before the removal loop.
update_refresh_before_removal(t, dt, prediction_distance, colliders, bodies, modified_colliders, removed_colliders) ==
    LET s0 == [tree |-> t.tree, meta |-> t.meta, events |-> <<>>,
               balances |-> <<>>, diffs |-> <<>>, panicked |-> "none"]
        s1 == refresh_loop(s0, dt, colliders, bodies, modified_colliders, 1)
        s2 == remove_loop(s1, removed_colliders, 1)
    IN  diff_loop(s2, prediction_distance, modified_colliders, 1)

\* BroadPhaseSieveTree::update on the broad-phase t = [tree, meta]; the caller
\* hands in an empty events vector.
update(t, dt, prediction_distance, colliders, bodies, modified_colliders, removed_colliders) ==
    LET s0 == [tree |-> t.tree, meta |-> t.meta, events |-> <<>>,
               balances |-> <<>>, diffs |-> <<>>, panicked |-> "none"]
        s1 == remove_loop(s0, removed_colliders, 1)
        s2 == refresh_loop(s1, dt, colliders, bodies, modified_colliders, 1)
    IN  diff_loop(s2, prediction_distance, modified_colliders, 1)

----------------------------------------------------------------------------
(* Inputs of update *)

\* Sequences over S of length at most n.
SeqsUpTo(S, n) == UNION {[1..k -> S] : k \in 0..n}

Range(f) == {f[i] : i \in DOMAIN f}

Origin == [i \in Axes |-> 0]

\* The parent relation of a collider: collider 1 may be attached to body 1.
Parents(h) ==
    IF h = 1
    THEN {<<>>, <<[handle |-> 1, pos_wrt_parent |-> Origin]>>}
    ELSE {<<>>}

\* The colliders a handle can name in the collider set.  update reads the
\* position and the parent of a collider only after the test of line 49, so
\* one position and one parent stand for all in a collider that fails it
\* (the lookup closure would read its position, were the index to call it).
Colliders(h) ==
    {co \in [pos : {[i \in Axes |-> IF i = 1 THEN x ELSE 0] : x \in Translations},
             contact_skin : {0},
             enabled : BOOLEAN,
             needs_broad_phase_update : BOOLEAN,
             parent : Parents(h)] :
        /\ (~co.enabled \/ ~co.needs_broad_phase_update)
              => co.pos = Origin /\ co.parent = <<>>
        /\ co.parent # <<>> => co.pos = Origin}

RigidBodies ==
    [position : {Origin},
     linvel : {[i \in Axes |-> IF i = 1 THEN 1 ELSE 0]},
     soft_ccd_prediction : {0, 1}]

\* Rigid-body sets: read only through the parent of a modified collider.
RigidBodySets(colliders) ==
    IF \E h \in DOMAIN colliders : colliders[h].parent # <<>>
    THEN UNION {[D -> RigidBodies] : D \in SUBSET RigidBodyHandles}
    ELSE {<<>>}

\* Collider sets: update reads only the colliders its modified list names
\* (the index does not call the lookup closure), so the sets that name at
\* most those handles stand for all.
ColliderSets(modified_colliders) ==
    UNION {{cs \in [D -> UNION {Colliders(h) : h \in D}] :
              \A h \in D : cs[h] \in Colliders(h)} :
           D \in SUBSET Range(modified_colliders)}

\* The argument lists of one call of update.
Calls ==
    UNION {UNION {
        [dt : Dts,
         prediction_distance : PredictionDistances,
         colliders : {cs},
         bodies : RigidBodySets(cs),
         modified_colliders : {modified_colliders},
         removed_colliders :
             {removed_colliders \in SeqsUpTo(ColliderHandles, MaxRemoved) :
                 Len(modified_colliders) + Len(removed_colliders) <= MaxNamed}] :
        cs \in ColliderSets(modified_colliders)} :
      modified_colliders \in SeqsUpTo(ColliderHandles, MaxModified)}

----------------------------------------------------------------------------
(* Rigid motions (parry NonlinearRigidMotion), in the plane: a pose is a    *)
(* translation and a rotation counted in quarter turns, which keeps every   *)
(* composition on the integer grid.                                         *)

vec_add(a, b) == [i \in Axes |-> a[i] + b[i]]

vec_sub(a, b) == [i \in Axes |-> a[i] - b[i]]

vec_scale(a, k) == [i \in Axes |-> a[i] * k]

\* v rotated by k quarter turns.
rotate(k, v) ==
    LET q == k % 4 IN
    IF q = 0 THEN v
    ELSE IF q = 1 THEN [i \in Axes |-> IF i = 1 THEN 0 - v[2] ELSE v[1]]
    ELSE IF q = 2 THEN [i \in Axes |-> 0 - v[i]]
    ELSE [i \in Axes |-> IF i = 1 THEN v[2] ELSE 0 - v[1]]

Isometry(translation, rotation) == [translation |-> translation, rotation |-> rotation % 4]

iso_identity == Isometry(Origin, 0)

iso_mul(a, b) ==
    Isometry(vec_add(a.translation, rotate(a.rotation, b.translation)),
             a.rotation + b.rotation)

iso_inverse(a) ==
    Isometry(rotate(0 - a.rotation, vec_scale(a.translation, -1)), 0 - a.rotation)

iso_transform_point(a, p) == vec_add(a.translation, rotate(a.rotation, p))

Abs(x) == IF x < 0 THEN 0 - x ELSE x

\* Euclidean norm; the velocities of the model have integer norms.
norm(v) ==
    LET sq == v[1] * v[1] + v[2] * v[2]
    IN  CHOOSE n \in 0..sq : n * n <= sq /\ (n + 1) * (n + 1) > sq

NonlinearRigidMotion(start, local_center, linvel, angvel) ==
    [start |-> start, local_center |-> local_center,
     linvel |-> linvel, angvel |-> angvel]

motion_identity == NonlinearRigidMotion(iso_identity, Origin, Origin, 0)

motion_constant_position(pos) == NonlinearRigidMotion(pos, Origin, Origin, 0)

motion_position_at_time(m, t) ==
    LET center == iso_transform_point(m.start, m.local_center)
        shift  == Isometry(center, 0)
    IN  iso_mul(iso_mul(shift, Isometry(vec_scale(m.linvel, t), m.angvel * t)),
                iso_mul(iso_inverse(shift), m.start))

motion_freeze(m, t) ==
    NonlinearRigidMotion(motion_position_at_time(m, t), m.local_center, Origin, 0)

motion_prepend(m, iso) ==
    NonlinearRigidMotion(iso_mul(m.start, iso),
                         iso_transform_point(iso_inverse(iso), m.local_center),
                         m.linvel, m.angvel)

----------------------------------------------------------------------------
(* TOIEntry *)

\* TOIEntry::new with the two body fields exchanged.
TOIEntry_new_bodies_swapped(toi, c1, b1, c2, b2, is_intersection_test, timestamp) ==
    [toi |-> toi, c1 |-> c1, b1 |-> b2, c2 |-> c2, b2 |-> b1,
     is_intersection_test |-> is_intersection_test, timestamp |-> timestamp]

\* TOIEntry::new
TOIEntry_new(toi, c1, b1, c2, b2, is_intersection_test, timestamp) ==
    [toi |-> toi, c1 |-> c1, b1 |-> b1, c2 |-> c2, b2 |-> b2,
     is_intersection_test |-> is_intersection_test, timestamp |-> timestamp]

\* TOIEntry::body_motion
body_motion(b) ==
    IF b.ccd_active
    THEN NonlinearRigidMotion(b.position, b.local_com, b.linvel, b.angvel)
    ELSE motion_constant_position(b.next_position)

\* Lines 84-91: frozen.is_none() as u32 as Real * b.map(|b| b.1.linvel).unwrap_or(zero)
side_linvel(b, frozen) ==
    vec_scale(IF b = None THEN Origin ELSE b[1].linvel,
              IF frozen = None THEN 1 ELSE 0)

side_angvel(b, frozen) ==
    (IF frozen = None THEN 1 ELSE 0) * (IF b = None THEN 0 ELSE b[1].angvel)

\* Lines 93-96 (dim2): the bound on the relative speed.
vel12_of(b1, b2, frozen1, frozen2) ==
    norm(vec_sub(side_linvel(b2, frozen2), side_linvel(b1, frozen1)))
    + Abs(side_angvel(b1, frozen1)) * (IF b1 = None THEN 0 ELSE b1[1].ccd_max_dist)
    + Abs(side_angvel(b2, frozen2)) * (IF b2 = None THEN 0 ELSE b2[1].ccd_max_dist)

\* thickness_of without the max(0.0).
thickness_of_no_max(co_shape1, co_shape2, smallest_contact_dist) ==
    (co_shape1.ccd_thickness + co_shape2.ccd_thickness) + smallest_contact_dist

\* Lines 105-106.
thickness_of(co_shape1, co_shape2, smallest_contact_dist) ==
    (co_shape1.ccd_thickness + co_shape2.ccd_thickness)
    + Max2(smallest_contact_dist, 0)

\* is_intersection_test_of with && in the place of ||.
is_intersection_test_of_both(co_type1, co_type2) ==
    co_type1 = "Sensor" /\ co_type2 = "Sensor"

\* Line 107.
is_intersection_test_of(co_type1, co_type2) ==
    co_type1 = "Sensor" \/ co_type2 = "Sensor"

\* early_out with the window's length taken as end_time + start_time.
early_out_times_added(start_time, end_time, vel12, thickness) ==
    (end_time + start_time) * vel12 < thickness

\* Line 109: the early-out test.
early_out(start_time, end_time, vel12, thickness) ==
    (end_time - start_time) * vel12 < thickness

\* Lines 115-127: the motion of one collider.
collider_motion(c, b, frozen) ==
    LET motion0 == IF b = None THEN motion_identity ELSE body_motion(b[1])
        motion  == IF frozen = None THEN motion0 ELSE motion_freeze(motion0, frozen[1])
    IN  motion_prepend(motion,
                       IF c.co_parent = None THEN c.co_pos
                       ELSE c.co_parent[1].pos_wrt_parent)

Unsupported == [tag |-> "Unsupported"]

Ok(toi) == [tag |-> "Ok", toi |-> toi]

\* res_toi_of without the fallback: an unsupported pair gives no result.
res_toi_of_no_fallback(query_dispatcher, motion_c1, motion_c2, linvel1, linvel2, start_time, end_time, stop_at_penetration) ==
    [calls |-> <<[solver |-> "nonlinear_time_of_impact",
                  motion1 |-> motion_c1, motion2 |-> motion_c2,
                  start_time |-> start_time, end_time |-> end_time,
                  stop_at_penetration |-> stop_at_penetration]>>,
     res   |-> IF query_dispatcher.nonlinear.tag = "Unsupported"
               THEN None
               ELSE Some(query_dispatcher.nonlinear.toi)]

\* Lines 140-162: the solver calls.  query_dispatcher holds what each solver
\* of the dispatcher answers; the result carries the calls that were made.
res_toi_of(query_dispatcher, motion_c1, motion_c2, linvel1, linvel2, start_time, end_time, stop_at_penetration) ==
    LET nonlinear_call ==
            [solver |-> "nonlinear_time_of_impact",
             motion1 |-> motion_c1, motion2 |-> motion_c2,
             start_time |-> start_time, end_time |-> end_time,
             stop_at_penetration |-> stop_at_penetration]
        linear_call ==
            [solver |-> "time_of_impact",
             pos12 |-> iso_mul(
                         iso_inverse(motion_position_at_time(motion_c1, start_time)),
                         motion_position_at_time(motion_c2, start_time)),
             vel12 |-> vec_sub(linvel2, linvel1),
             max_toi |-> end_time - start_time]
    IN  IF query_dispatcher.nonlinear.tag = "Unsupported"
        THEN [calls |-> <<nonlinear_call, linear_call>>,
              res   |-> IF query_dispatcher.linear.tag = "Unsupported"
                        THEN None
                        ELSE Some(query_dispatcher.linear.toi)]
        ELSE [calls |-> <<nonlinear_call>>,
              res   |-> Some(query_dispatcher.nonlinear.toi)]

\* window_asserted without the test (the assertion compiled out).
window_asserted_unchecked(start_time, end_time) == TRUE

\* Line 76: the condition of assert!.
window_asserted(start_time, end_time) == start_time <= end_time

\* both_fixed with the test of one side only.
both_fixed_one_side(b1, b2) == b1 = None /\ b2 # None

\* Line 77: neither side has a rigid body.
both_fixed(b1, b2) == b1 = None /\ b2 = None

\* TOIEntry::try_from_colliders.  The result is [panicked, entry, calls]:
\* entry is the returned Option<TOIEntry>, calls the solver calls made.
try_from_colliders(query_dispatcher, ch1, ch2, c1, c2, b1, b2, frozen1, frozen2, start_time, end_time, smallest_contact_dist) ==
    IF ~window_asserted(start_time, end_time)
    THEN [panicked |-> TRUE, entry |-> None, calls |-> <<>>]
    ELSE IF both_fixed(b1, b2)
    THEN [panicked |-> FALSE, entry |-> None, calls |-> <<>>]
    ELSE
      LET linvel1   == side_linvel(b1, frozen1)
          linvel2   == side_linvel(b2, frozen2)
          vel12     == vel12_of(b1, b2, frozen1, frozen2)
          thickness == thickness_of(c1.co_shape, c2.co_shape, smallest_contact_dist)
          is_intersection_test == is_intersection_test_of(c1.co_type, c2.co_type)
      IN
      IF early_out(start_time, end_time, vel12, thickness)
      THEN [panicked |-> FALSE, entry |-> None, calls |-> <<>>]
      ELSE
        LET motion_c1 == collider_motion(c1, b1, frozen1)
            motion_c2 == collider_motion(c2, b2, frozen2)
            stop_at_penetration == is_intersection_test
            r == res_toi_of(query_dispatcher, motion_c1, motion_c2, linvel1, linvel2,
                            start_time, end_time, stop_at_penetration)
        IN
        IF r.res = None \/ r.res[1] = None
        THEN [panicked |-> FALSE, entry |-> None, calls |-> r.calls]
        ELSE [panicked |-> FALSE,
              entry |-> Some(TOIEntry_new(
                          r.res[1][1].toi,
                          ch1,
                          IF c1.co_parent = None THEN None
                          ELSE Some(c1.co_parent[1].handle),
                          ch2,
                          IF c2.co_parent = None THEN None
                          ELSE Some(c2.co_parent[1].handle),
                          is_intersection_test,
                          0)),
              calls |-> r.calls]

\* Real negation.
neg(x) == 0 - x

\* Real::partial_cmp on numbers (no NaN among the times of the model).
real_partial_cmp(a, b) ==
    IF a < b THEN Some("Less") ELSE IF a = b THEN Some("Equal") ELSE Some("Greater")

\* partial_cmp on the times themselves, not negated.
partial_cmp_not_negated(self, other) == real_partial_cmp(self.toi, other.toi)

\* impl PartialOrd for TOIEntry
partial_cmp(self, other) == real_partial_cmp(neg(self.toi), neg(other.toi))

\* impl Ord for TOIEntry: self.partial_cmp(other).unwrap()
cmp(self, other) == partial_cmp(self, other)[1]

\* impl PartialEq for TOIEntry
eq(self, other) == self.toi = other.toi

----------------------------------------------------------------------------
(* Inputs of try_from_colliders *)

\* Largest start_time / end_time.
MaxTime == 2

Times == 0..MaxTime

\* smallest_contact_dist values.
ContactDists == {-1, 0, 1}

\* Impact times a solver reports.
SolverTois == {1, 2}

XAxis(x) == [i \in Axes |-> IF i = 1 THEN x ELSE 0]

\* (ColliderType, ColliderShape, ColliderPosition, Option<ColliderParent>)
ColliderParts(thicknesses, body_handle) ==
    [co_type : {"Solid", "Sensor"},
     co_shape : [ccd_thickness : thicknesses],
     co_pos : {Isometry(XAxis(body_handle), 0)},
     co_parent : {None, Some([handle |-> body_handle,
                              pos_wrt_parent |-> Isometry(XAxis(1), 1)])}]

\* (RigidBodyPosition, RigidBodyVelocity, RigidBodyMassProps, RigidBodyCcd)
BodyParts(linvel, angvel, ccd_active) ==
    [position |-> Isometry(Origin, 0), next_position |-> Isometry(linvel, angvel),
     linvel |-> linvel, angvel |-> angvel, local_com |-> XAxis(1),
     ccd_active |-> ccd_active, ccd_max_dist |-> 1]

Bodies1 == {None,
            Some(BodyParts(XAxis(2), 0, TRUE)),
            Some(BodyParts(Origin, -1, TRUE)),
            Some(BodyParts(XAxis(2), 0, FALSE))}

Bodies2 == {None, Some(BodyParts(XAxis(-1), 0, TRUE))}

Dispatchers ==
    LET answers == {Ok(None)} \cup {Ok(Some([toi |-> t])) : t \in SolverTois}
    IN  {[nonlinear |-> a, linear |-> Unsupported] : a \in answers}
        \cup {[nonlinear |-> Unsupported, linear |-> a] :
                a \in answers \cup {Unsupported}}

\* The argument lists of one call of try_from_colliders.
TOICalls ==
    [query_dispatcher : Dispatchers,
     ch : {<<1, 2>>, <<2, 1>>},
     c1 : ColliderParts({0, 1}, 1),
     c2 : ColliderParts({0}, 2),
     b1 : Bodies1,
     b2 : Bodies2,
     frozen1 : {None, Some(1)},
     frozen2 : {None},
     start_time : Times,
     end_time : Times,
     smallest_contact_dist : ContactDists]

----------------------------------------------------------------------------
(* Entries of the priority structure *)

\* Most entries held at once.
MaxHeap == 3

\* Impact times in tenths: 0.1, 0.4, 0.7.
EntryTois == {1, 4, 7}

HeapEntries ==
    {TOIEntry_new(t, c, None, 3 - c, Some(1), FALSE, ts) :
        t \in EntryTois, c \in {1, 2}, ts \in {0, 1}}

\* seq without its i-th element.
RemoveAt(seq, i) == SubSeq(seq, 1, i - 1) \o SubSeq(seq, i + 1, Len(seq))

----------------------------------------------------------------------------
(* The state machines *)

Init ==
    /\ tree = <<>>
    /\ meta = <<>>
    /\ events = <<>>
    /\ last = None
    /\ panicked = "none"
    /\ pairs = {}
    /\ call = None
    /\ heap = <<>>
    /\ popped = <<>>

\* One call of update, handed an empty events vector.
Update ==
    /\ panicked = "none"
    /\ events = <<>> /\ last = None
    /\ \E c \in Calls :
         \E r \in {update([tree |-> tree, meta |-> meta], c.dt, c.prediction_distance,
                          c.colliders, c.bodies, c.modified_colliders,
                          c.removed_colliders)} :
             /\ tree' = r.tree
             /\ meta' = r.meta
             /\ events' = r.events
             /\ last' = Some([prediction_distance |-> c.prediction_distance,
                               colliders           |-> c.colliders,
                               modified_colliders  |-> c.modified_colliders,
                               removed_colliders   |-> c.removed_colliders,
                               balances            |-> r.balances,
                               diffs               |-> r.diffs])
             /\ panicked' = r.panicked
    /\ UNCHANGED <<pairs, call, heap, popped>>

\* The unordered pair of a BroadPhasePairEvent.
pair_of(event) == {event.collider1, event.collider2}

\* The pairs held once the first n events of evs are handled, from the pairs
\* held: AddPair inserts the pair, DeletePair removes it.
RECURSIVE pairs_after(_, _, _)
pairs_after(held, evs, n) ==
    IF n = 0 THEN held
    ELSE LET before == pairs_after(held, evs, n - 1) IN
         IF evs[n].kind = "AddPair"
         THEN before \cup {pair_of(evs[n])}
         ELSE before \ {pair_of(evs[n])}

\* The caller handles the events of the last call in order and clears the
\* vector before the next one.
ClearEvents ==
    /\ panicked = "none"
    /\ last # None
    /\ pairs' = pairs_after(pairs, events, Len(events))
    /\ events' = <<>>
    /\ last' = None
    /\ UNCHANGED <<tree, meta, panicked, call, heap, popped>>

Next == Update \/ ClearEvents

Spec == Init /\ [][Next]_vars

\* One call of try_from_colliders.
Estimate ==
    /\ call = None
    /\ \E a \in TOICalls :
         call' = Some([args |-> a,
                       out  |-> try_from_colliders(
                                  a.query_dispatcher, a.ch[1], a.ch[2], a.c1, a.c2,
                                  a.b1, a.b2, a.frozen1, a.frozen2,
                                  a.start_time, a.end_time, a.smallest_contact_dist)])
    /\ UNCHANGED <<tree, meta, events, last, panicked, pairs, heap, popped>>

\* The caller consumes the outcome.
Consume ==
    /\ call # None
    /\ call' = None
    /\ UNCHANGED <<tree, meta, events, last, panicked, pairs, heap, popped>>

NextTOI == Estimate \/ Consume

SpecTOI == Init /\ [][NextTOI]_vars

\* BinaryHeap::push, before the extraction starts.
Push ==
    /\ popped = <<>>
    /\ Len(heap) < MaxHeap
    /\ \E e \in HeapEntries : heap' = Append(heap, e)
    /\ UNCHANGED <<tree, meta, events, last, panicked, pairs, call, popped>>

\* BinaryHeap::pop: extracts an entry that no held entry is greater than.
Pop ==
    /\ \E i \in 1..Len(heap) :
         /\ \A j \in 1..Len(heap) : cmp(heap[j], heap[i]) # "Greater"
         /\ popped' = Append(popped, heap[i])
         /\ heap' = RemoveAt(heap, i)
    /\ UNCHANGED <<tree, meta, events, last, panicked, pairs, call>>

\* The extracted entries are dropped once the structure is empty.
Restart ==
    /\ heap = <<>>
    /\ popped # <<>>
    /\ popped' = <<>>
    /\ UNCHANGED <<tree, meta, events, last, panicked, pairs, call, heap>>

NextOrd == Push \/ Pop \/ Restart

SpecOrd == Init /\ [][NextOrd]_vars

----------------------------------------------------------------------------
(* Properties of the broad phase *)

\* The handles stored in the spatial index.
Indexed == {tree[id].value : id \in DOMAIN tree}

\* The other indexed handles whose stored bounds overlap the stored bounds of
\* h loosened by pd.
Overlapping(h, pd) ==
    {tree[id].value :
        id \in tree_intersections(tree, bounds_loosened(meta[h].bounds, pd))} \ {h}

\* h's touching set contains o.
Touches(h, o) == h \in DOMAIN meta /\ o \in meta[h].touching

\* The state is the one a call of update returned with.
AfterUpdate == last # None /\ panicked = "none"

\* The number of occurrences of e in seq.
Count(seq, e) == Cardinality({i \in 1..Len(seq) : seq[i] = e})

\* C1 (as claimed): in every state the update calls reach, A's touching set
\* contains B if and only if B's touching set contains A.
C1_TouchingSymmetric ==
    panicked = "none" =>
        \A a, b \in ColliderHandles : Touches(a, b) <=> Touches(b, a)

\* C2 (as claimed): after every update call the touching set of every handle
\* that has metadata is exactly the set of the other indexed handles whose
\* stored bounds overlap its stored bounds loosened by prediction_distance.
C2_TouchingIsOverlap ==
    AfterUpdate =>
        \A h \in DOMAIN meta :
            meta[h].touching = Overlapping(h, last[1].prediction_distance)

\* C3 (as claimed): a pair diff of A emits AddPair(A, B), and adds A to B's
\* touching set, only for a B that the overlap query returned and that was
\* not in A's touching set before the diff.
C3_AddOnlyNewPairs ==
    last # None =>
        \A i \in 1..Len(last[1].diffs) :
            LET d == last[1].diffs[i] IN
            \A b \in ColliderHandles :
                Count(d.events, AddPair(d.collider1, b)) > 0
                    => b \in d.found /\ b \notin d.was_touching

\* C4: in a pair diff of A, every B of A's former touching set that the
\* overlap query does not return gets exactly one DeletePair(A, B), after
\* which neither touching set holds the other; a B the query returns gets no
\* DeletePair(A, B).
C4_DeleteObsoletePairs ==
    last # None =>
        \A i \in 1..Len(last[1].diffs) :
            LET d == last[1].diffs[i]
                a == d.collider1
            IN  /\ \A b \in d.was_touching \ d.found :
                      /\ Count(d.events, DeletePair(a, b)) = 1
                      /\ b \notin d.touching[a]
                      /\ b \in DOMAIN d.touching => a \notin d.touching[b]
                /\ \A b \in d.found : Count(d.events, DeletePair(a, b)) = 0

\* Aborts of update that the caller's arguments cause: a removed handle
\* without metadata, a modified handle that names no collider.
ContractPanics == {"remove: meta unwrap", "refresh: collider unwrap"}

\* C5 (as claimed): every call of update, given handles that name colliders
\* and metadata, leaves metadata exactly for the handles stored in the index
\* (each under its metadata's id); it creates the metadata of the handles its
\* modified list names and destroys exactly that of the handles its removed
\* list names.
C5_IdenticalLifetimes ==
    [][(last = None /\ last' # None /\ panicked' \notin ContractPanics) =>
          /\ DOMAIN meta' = {tree'[id].value : id \in DOMAIN tree'}
          /\ \A h \in DOMAIN meta' :
                meta'[h].id \in DOMAIN tree' /\ tree'[meta'[h].id].value = h
          /\ \A h \in ColliderHandles :
                h \in DOMAIN meta' <=>
                    \/ h \in Range(last'[1].modified_colliders)
                    \/ h \in DOMAIN meta /\ h \notin Range(last'[1].removed_colliders)
      ]_vars

\* The touching sets agree with the overlaps under pd, as far as the indexed
\* handles go.
Settled(pd) ==
    \A h \in DOMAIN meta : meta[h].touching \cap Indexed = Overlapping(h, pd)

\* update(removed = [h]) followed by update(modified = [h]) on the current
\* broad phase, with the collider co of h and the rigid-body set bodies.
RemoveThenReinsert(h, co, bodies, dt, pd) ==
    LET r1 == update([tree |-> tree, meta |-> meta], dt, pd,
                     <<>>, <<>>, <<>>, <<h>>)
    IN  update([tree |-> r1.tree, meta |-> r1.meta], dt, pd,
               (h :> co), bodies, <<h>>, <<>>)

\* The colliders and rigid-body sets that give h the bounds it is stored under.
SameBoundsInputs(h, dt) ==
    {in \in UNION {[co : {co}, bodies : RigidBodySets(h :> co)] : co \in Colliders(h)} :
        /\ in.co.enabled /\ in.co.needs_broad_phase_update
        /\ new_bounds_of(in.co, in.bodies, dt) = meta[h].bounds}

\* C6 (as claimed): from any state between two calls, removing a collider
\* and re-inserting it with identical bounds, under a prediction distance
\* the touching sets are settled for, leaves every touching set as it was.
C6_IdempotentReinsertion ==
    (panicked = "none" /\ last = None) =>
        \A h \in DOMAIN meta, pd \in PredictionDistances, dt \in Dts :
            Settled(pd) =>
                \A in \in SameBoundsInputs(h, dt) :
                    LET r == RemoveThenReinsert(h, in.co, in.bodies, dt, pd)
                    IN  r.panicked = "none"
                        /\ touching_of(r.meta) = touching_of(meta)

\* The handles whose collider, position included, the collider set of the
\* last call carries: the colliders that pass the test of line 49.
Positioned ==
    {h \in DOMAIN last[1].colliders :
        last[1].colliders[h].enabled
        /\ last[1].colliders[h].needs_broad_phase_update}

\* C17 (as claimed): at every insert_and_balance or update_and_balance call
\* of update, the lookup handed over returns, for every other handle stored
\* in the index, the bounds that handle is stored under.
C17_LookupAgreesWithIndex ==
    last # None =>
        \A i \in 1..Len(last[1].balances) :
            LET b == last[1].balances[i] IN
            \A o \in (DOMAIN b.stored \ {b.handle}) \cap Positioned :
                b.lookup[o] = b.stored[o]

\* The calls of update that abort in the removal loop.
RemovalPanics == {"remove: meta unwrap", "remove: debug_assert_eq"}

\* The removed list names, at position i, a handle that has no metadata when
\* its turn comes: none before the call, or removed by an earlier position.
NoMetadataAt(removed_colliders, i) ==
    \/ removed_colliders[i] \notin DOMAIN meta
    \/ \E j \in 1..(i - 1) : removed_colliders[j] = removed_colliders[i]

\* C15: a call of update whose removed list names a handle without metadata
\* fails in the removal loop: no bounds are refreshed, no pair is diffed, no
\* event is emitted.
C15_RemovalContract ==
    [][(last = None /\ last' # None
        /\ \E i \in 1..Len(last'[1].removed_colliders) :
              NoMetadataAt(last'[1].removed_colliders, i))
       => /\ panicked' \in RemovalPanics
          /\ last'[1].balances = <<>> /\ last'[1].diffs = <<>>
          /\ events' = <<>>
      ]_vars

\* C15 witness: a call failed in the removal loop on a handle named twice in
\* its removed list, whose first naming removed the metadata.
C15_Witness ==
    /\ last # None
    /\ Len(last[1].removed_colliders) = 2
    /\ last[1].removed_colliders[1] = last[1].removed_colliders[2]
    /\ last[1].modified_colliders # <<>>
    /\ panicked = "remove: meta unwrap"
    /\ last[1].removed_colliders[1] \notin DOMAIN meta
    /\ meta # <<>>

\* C16 (as claimed): a call of update whose modified list names only
\* colliders of the collider set and whose removed list names only handles
\* that have metadata completes without failure.
C16_NeverFailsOnConsistentInputs ==
    [][(last = None /\ last' # None
        /\ Range(last'[1].modified_colliders) \subseteq DOMAIN last'[1].colliders
        /\ \A i \in 1..Len(last'[1].removed_colliders) :
              ~NoMetadataAt(last'[1].removed_colliders, i))
       => panicked' = "none"
      ]_vars

\* C18 (as claimed): among the events of one call, every AddPair with a
\* modified collider A as first collider comes before every DeletePair with
\* A as first collider.
C18_AddsBeforeDeletes ==
    last # None =>
        \A a \in Range(last[1].modified_colliders) :
            \A i, j \in 1..Len(events) :
                (/\ events[i].kind = "AddPair" /\ events[i].collider1 = a
                 /\ events[j].kind = "DeletePair" /\ events[j].collider1 = a)
                    => i < j

\* Every index call of the last update found the handles of the removed list
\* gone from the index, but for those the same update had inserted anew.
RemovalsBeforeRefresh ==
    \A i \in 1..Len(last[1].balances) :
        \A h \in Range(last[1].removed_colliders) \cap DOMAIN last[1].balances[i].stored :
            \E j \in 1..(i - 1) :
                /\ last[1].balances[j].handle = h
                /\ last[1].balances[j].op = "insert_and_balance"

\* Every overlap query of the last update returned the other handles whose
\* bounds, as stored once every modified collider is refreshed, overlap the
\* loosened bounds of the diffed collider.
QueriesSeeRefreshedBounds ==
    \A i \in 1..Len(last[1].diffs) :
        last[1].diffs[i].found
            = Overlapping(last[1].diffs[i].collider1, last[1].prediction_distance)

\* C19 (as claimed): the removals come before every bounds refresh and the
\* bounds refreshes before every overlap query: a query sees the refreshed
\* bounds of the colliders modified in the same call and returns no collider
\* named in removed.
C19_StepOrder_AsClaimed ==
    last # None =>
        /\ RemovalsBeforeRefresh
        /\ QueriesSeeRefreshedBounds
        /\ \A i \in 1..Len(last[1].diffs) :
              last[1].diffs[i].found \cap Range(last[1].removed_colliders) = {}

\* C19 (amended): the same, but that a query may return a collider named in
\* removed that modified names too: it was inserted anew.
C19_StepOrder ==
    last # None =>
        /\ RemovalsBeforeRefresh
        /\ QueriesSeeRefreshedBounds
        /\ \A i \in 1..Len(last[1].diffs) :
              last[1].diffs[i].found \cap Range(last[1].removed_colliders)
                  \subseteq Range(last[1].modified_colliders)

\* C19 witness: a call that removed a collider the index held and whose first
\* overlap query returned the collider modified second, which the bounds it
\* was stored under before its refresh would have kept out of the result.
C19_Witness ==
    /\ last # None /\ panicked = "none"
    /\ Len(last[1].removed_colliders) = 1
    /\ Len(last[1].diffs) = 2
    /\ LET d1 == last[1].diffs[1]
           o  == last[1].diffs[2].collider1
       IN  /\ o # d1.collider1 /\ o \in d1.found
           /\ \E i \in 1..Len(last[1].balances) :
                 LET b == last[1].balances[i] IN
                 /\ b.handle = o /\ b.op = "update_and_balance"
                 /\ ~bounds_intersects(
                        b.stored[o],
                        bounds_loosened(meta[d1.collider1].bounds,
                                        last[1].prediction_distance))
                 /\ \E j \in 1..Len(last[1].balances) :
                       last[1].removed_colliders[1] \notin DOMAIN last[1].balances[j].stored

\* C20: every DeletePair is emitted for a pair for which an AddPair was
\* emitted earlier with no DeletePair since: a pair the consumer holds when
\* it handles the events in order.
C20_DeletesCancelLivePairs ==
    last # None =>
        \A i \in 1..Len(events) :
            events[i].kind = "DeletePair"
                => pair_of(events[i]) \in pairs_after(pairs, events, i - 1)

\* C20 witness: the call emitted a DeletePair for a pair that was added by
\* an earlier call and an AddPair for another pair.
C20_Witness ==
    /\ last # None /\ panicked = "none"
    /\ \E i, j \in 1..Len(events) :
          /\ events[i].kind = "DeletePair" /\ pair_of(events[i]) \in pairs
          /\ events[j].kind = "AddPair" /\ pair_of(events[j]) \notin pairs

----------------------------------------------------------------------------
(* Properties of try_from_colliders.  The quantities the claims name are    *)
(* written out here from the arguments of the call.                         *)

\* A call of try_from_colliders has been made; Args and Out are its
\* arguments and its outcome.
Called == call # None

Args == call[1].args

Out == call[1].out

HasBody1 == Args.b1 # None

HasBody2 == Args.b2 # None

\* The velocities of a side: zero when the side is frozen or has no body.
LinvelOf(b, frozen) == IF b = None \/ frozen # None THEN Origin ELSE b[1].linvel

AngvelOf(b, frozen) == IF b = None \/ frozen # None THEN 0 ELSE b[1].angvel

\* The bound on the relative closing speed.
RelativeSpeedBound ==
    norm(vec_sub(LinvelOf(Args.b2, Args.frozen2), LinvelOf(Args.b1, Args.frozen1)))
    + (IF HasBody1 THEN Abs(AngvelOf(Args.b1, Args.frozen1)) * Args.b1[1].ccd_max_dist
       ELSE 0)
    + (IF HasBody2 THEN Abs(AngvelOf(Args.b2, Args.frozen2)) * Args.b2[1].ccd_max_dist
       ELSE 0)

\* The thickness margin.
ThicknessMargin ==
    Args.c1.co_shape.ccd_thickness + Args.c2.co_shape.ccd_thickness
    + (IF Args.smallest_contact_dist > 0 THEN Args.smallest_contact_dist ELSE 0)

\* No impact is reachable in the window.
Unreachable ==
    (Args.end_time - Args.start_time) * RelativeSpeedBound < ThicknessMargin

ValidWindow == Args.start_time <= Args.end_time

\* The call returned no candidate and invoked no solver.
NothingWithoutSolver == ~Out.panicked /\ Out.entry = None /\ Out.calls = <<>>

\* The dispatcher of the call would report an impact.
SolverWouldHit ==
    /\ Args.query_dispatcher.nonlinear.tag = "Ok"
    /\ Args.query_dispatcher.nonlinear.toi # None

\* C7 (as claimed): every call in which a side has a body and the window
\* times the speed bound is below the thickness returns no candidate and
\* invokes no solver.
C7_EarlyOut_AsClaimed ==
    (Called /\ (HasBody1 \/ HasBody2) /\ Unreachable) => NothingWithoutSolver

\* C7 (amended): the same, for the calls with start_time <= end_time.
C7_EarlyOut ==
    (Called /\ ValidWindow /\ (HasBody1 \/ HasBody2) /\ Unreachable)
        => NothingWithoutSolver

\* C7 witness: an early-out of a call whose solver would have reported an
\* impact, over a window of positive length.
C7_Witness ==
    /\ Called /\ (HasBody1 \/ HasBody2) /\ Unreachable
    /\ Args.start_time < Args.end_time
    /\ SolverWouldHit
    /\ NothingWithoutSolver

\* C8 (as claimed): every call in which neither side has a body returns no
\* candidate and invokes no solver, whatever the other arguments are.
C8_FixedPair_AsClaimed ==
    (Called /\ ~HasBody1 /\ ~HasBody2) => NothingWithoutSolver

\* C8 (amended): the same, for the calls with start_time <= end_time.
C8_FixedPair ==
    (Called /\ ValidWindow /\ ~HasBody1 /\ ~HasBody2) => NothingWithoutSolver

\* C8 witness: a call without bodies that the early-out test would let
\* through and whose solver would have reported an impact.
C8_Witness ==
    /\ Called /\ ValidWindow /\ ~HasBody1 /\ ~HasBody2
    /\ ~Unreachable
    /\ SolverWouldHit
    /\ NothingWithoutSolver

\* The positions in Out.calls of the calls of a solver.
CallsOf(solver) == {i \in 1..Len(Out.calls) : Out.calls[i].solver = solver}

\* C9: the linear solver is invoked if and only if the nonlinear solver was
\* invoked before it and reported unsupported; the outcome is then what the
\* linear solver reports over the duration end_time - start_time, a
\* candidate with its time or no candidate, and the call does not fail.
C9_UnsupportedFallback ==
    Called =>
        LET nonlinear == CallsOf("nonlinear_time_of_impact")
            linear    == CallsOf("time_of_impact")
            answer    == Args.query_dispatcher.linear
        IN  /\ linear # {} <=>
                  nonlinear # {} /\ Args.query_dispatcher.nonlinear = Unsupported
            /\ \A j \in linear :
                  /\ \E i \in nonlinear : i < j
                  /\ Out.calls[j].max_toi = Args.end_time - Args.start_time
                  /\ ~Out.panicked
                  /\ IF answer.tag = "Ok" /\ answer.toi # None
                     THEN Out.entry # None /\ Out.entry[1].toi = answer.toi[1].toi
                     ELSE Out.entry = None

\* C9 witness: a call that fell back on the linear solver and returned its
\* impact.
C9_Witness ==
    /\ Called
    /\ Args.query_dispatcher.nonlinear = Unsupported
    /\ CallsOf("time_of_impact") # {}
    /\ Args.start_time < Args.end_time
    /\ Out.entry # None

\* The call made again on the window [t0, t1], every other argument kept.
OutOnWindow(t0, t1) ==
    try_from_colliders(Args.query_dispatcher, Args.ch[1], Args.ch[2],
                       Args.c1, Args.c2, Args.b1, Args.b2,
                       Args.frozen1, Args.frozen2, t0, t1,
                       Args.smallest_contact_dist)

\* An outcome of a call with a body on some side is that of the early-out:
\* nothing returned, no solver invoked, no failure.
EarlyOutTaken(out) ==
    /\ HasBody1 \/ HasBody2
    /\ ~out.panicked /\ out.entry = None /\ out.calls = <<>>

\* The windows inside the window of the call.
SubWindows ==
    {w \in Times \X Times :
        Args.start_time <= w[1] /\ w[1] <= w[2] /\ w[2] <= Args.end_time}

\* C11: when a call returns nothing through the early-out, the call on any
\* sub-window of its window, with every other argument the same, returns
\* nothing through the early-out too.
C11_NoImpactMonotone ==
    (Called /\ EarlyOutTaken(Out)) =>
        \A w \in SubWindows : EarlyOutTaken(OutOnWindow(w[1], w[2]))

\* C11 witness: an early-out over a window of positive length, of sides in
\* relative motion whose solver would have reported an impact; the window has
\* sub-windows that start later.
C11_Witness ==
    /\ Called /\ EarlyOutTaken(Out)
    /\ Args.start_time < Args.end_time
    /\ RelativeSpeedBound > 0
    /\ SolverWouldHit
    /\ \E w \in SubWindows : w[1] > Args.start_time

\* C12: every call with start_time > end_time fails on the assertion: it
\* returns no candidate, returns no 'nothing', invokes no solver.
C12_InvalidWindowAsserts ==
    (Called /\ Args.start_time > Args.end_time) =>
        Out.panicked /\ Out.calls = <<>>

\* C12 witness: a failed call with start_time > end_time whose sides have
\* bodies and whose solver would have reported an impact.
C12_Witness ==
    /\ Called /\ Args.start_time > Args.end_time
    /\ HasBody1 /\ HasBody2
    /\ SolverWouldHit
    /\ Out.panicked

\* One of the two colliders of the call is a sensor.
HasSensor == Args.c1.co_type = "Sensor" \/ Args.c2.co_type = "Sensor"

\* C13: in every call that reaches the solver, the stop_at_penetration flag
\* handed to the nonlinear solver is true if and only if one of the
\* colliders is a sensor, and a returned candidate's is_intersection_test
\* has the same value.
C13_IntersectionOnlyFlag ==
    (Called /\ Out.calls # <<>>) =>
        /\ \A i \in CallsOf("nonlinear_time_of_impact") :
              Out.calls[i].stop_at_penetration <=> HasSensor
        /\ Out.entry # None => (Out.entry[1].is_intersection_test <=> HasSensor)

\* C13 witness: a candidate of a call in which exactly one collider is a
\* sensor, flagged as an intersection test.
C13_Witness ==
    /\ Called /\ Out.entry # None
    /\ Args.c1.co_type = "Solid" /\ Args.c2.co_type = "Sensor"
    /\ Out.entry[1].is_intersection_test
    /\ Out.calls[1].stop_at_penetration

\* The answer of the solver the call used last, when it is an impact.
ReportedImpact ==
    LET used == Out.calls[Len(Out.calls)].solver
        answer == IF used = "time_of_impact"
                  THEN Args.query_dispatcher.linear
                  ELSE Args.query_dispatcher.nonlinear
    IN  IF answer.tag = "Ok" THEN answer.toi ELSE None

\* The owning body of a collider: the body its parent relation names.
OwningBody(c) == IF c.co_parent = None THEN None ELSE Some(c.co_parent[1].handle)

\* C14: whenever the solver the call used reports an impact at time t, the
\* call returns a candidate with the time t, the two collider handles in the
\* order they were passed, for each side the owning body of its collider
\* (none when it has none), and the sequencing counter 0.
C14_CandidateContents ==
    (Called /\ Out.calls # <<>> /\ ReportedImpact # None) =>
        /\ ~Out.panicked /\ Out.entry # None
        /\ Out.entry[1].toi = ReportedImpact[1].toi
        /\ Out.entry[1].c1 = Args.ch[1] /\ Out.entry[1].c2 = Args.ch[2]
        /\ Out.entry[1].b1 = OwningBody(Args.c1)
        /\ Out.entry[1].b2 = OwningBody(Args.c2)
        /\ Out.entry[1].timestamp = 0

\* C14 witness: a candidate at time 2 of the colliders 2 and 1, passed in
\* that order, of which only the first has an owning body.
C14_Witness ==
    /\ Called /\ Out.entry # None
    /\ Args.ch = <<2, 1>>
    /\ Args.c1.co_parent # None /\ Args.c2.co_parent = None
    /\ Out.entry[1].toi = 2
    /\ Out.entry[1].b1 = Some(1) /\ Out.entry[1].b2 = None

----------------------------------------------------------------------------
(* Properties of the ordering of TOIEntry *)

\* The entries held or extracted.
Entries == Range(heap) \cup Range(popped)

\* C10: an entry is greater than another exactly when its time is smaller and
\* equal to it exactly when the times are equal, whatever the other fields;
\* the entries come out of the priority structure in non-decreasing time.
C10_Ordering ==
    /\ \A x, y \in Entries :
          /\ cmp(x, y) = "Greater" <=> x.toi < y.toi
          /\ cmp(x, y) = "Equal" <=> x.toi = y.toi
          /\ eq(x, y) <=> x.toi = y.toi
    /\ \A i, j \in 1..Len(popped) : i < j => popped[i].toi <= popped[j].toi

\* C10 witness: entries pushed with the times 0.7, 0.1, 0.4 have come out
\* as 0.1, 0.4, 0.7.
C10_Witness ==
    /\ heap = <<>>
    /\ Len(popped) = 3
    /\ <<popped[1].toi, popped[2].toi, popped[3].toi>> = <<1, 4, 7>>
    /\ popped[1].c1 # popped[2].c1

====
